---- MODULE Spec2Model ----
(***************************************************************************)
(* A model of smart_cmp_docx.py: the text helpers (normalize_text,         *)
(* flatten_poem_lines, simplify, highlight_real_changes), the paragraph    *)
(* alignment done with difflib.SequenceMatcher, and the Streamlit script   *)
(* that reruns top to bottom on every interaction of a session.            *)
(*                                                                         *)
(* A text is a sequence of characters, a character a one-element string    *)
(* (a code point outside ASCII is written as a token such as "U+3002").    *)
(* Offsets into paragraph and word lists are 0-based and half-open, as in  *)
(* the Python source; element i of a list s is s[i + 1].                   *)
(***************************************************************************)
EXTENDS Integers, Sequences, FiniteSets, TLC

VARIABLES
    f_orig,     \* the uploaded original file: NoFile, or its list of lines
    f_rev,      \* the uploaded revised file: NoFile, or its list of lines
    anchor,     \* the sidebar's anchor text
    nav,        \* st.session_state.nav: NoNav while the key is not set
    view,       \* what the last run of the script computed and displayed
    pc,         \* position of the harness that applies one pure function
    arg,        \* the arguments the harness applies the function to
    ret         \* the results the harness obtained, in order

vars == <<f_orig, f_rev, anchor, nav, view, pc, arg, ret>>

\* ------------------------------------------------------------------ text

Min(x, y) == IF x <= y THEN x ELSE y
Max(x, y) == IF x >= y THEN x ELSE y

\* s[lo:hi] of Python for 0 <= lo, with hi clipped to the length.
Slice(s, lo, hi) == SubSeq(s, lo + 1, Min(hi, Len(s)))

\* The function f on 1..n as a list: a tuple, its elements computed once.
AsList(f) == <<>> \o f

RECURSIVE Flat(_)
\* "".join(texts)
Flat(texts) ==
    IF texts = <<>> THEN <<>> ELSE Head(texts) \o Flat(Tail(texts))

\* A join that leaves the separator out: the words at the seams run together.
JoinTight(sep, texts) == Flat(texts)

RECURSIVE JoinWith(_, _)
\* sep.join(texts)
JoinWith(sep, texts) ==
    IF texts = <<>> THEN <<>>
    ELSE IF Len(texts) = 1 THEN texts[1]
    ELSE texts[1] \o sep \o JoinWith(sep, Tail(texts))

\* text with every character of the set chars removed
Without(text, chars) == SelectSeq(text, LAMBDA c : c \notin chars)

\* What str.split() and str.strip() treat as whitespace.
Whitespace == {" ", "\n", "\t", "\r"}

\* The smallest and the largest number of the set S.
Least(S) == CHOOSE x \in S : \A y \in S : x <= y
Greatest(S) == CHOOSE x \in S : \A y \in S : x >= y

\* The k-th smallest number of the set S.
Nth(S, k) == CHOOSE x \in S : Cardinality({y \in S : y <= x}) = k

\* text.split(): the maximal runs of characters that are not whitespace.
split(text) ==
    LET n == Len(text)
        InWord(i) == text[i] \notin Whitespace
        starts == {i \in 1..n : InWord(i) /\ (i = 1 \/ ~InWord(i - 1))}
        ends == {i \in 1..n : InWord(i) /\ (i = n \/ ~InWord(i + 1))}
    IN  AsList([k \in 1..Cardinality(starts) |->
                    SubSeq(text, Nth(starts, k), Nth(ends, k))])

\* text.strip()
strip(text) ==
    LET inner == {i \in 1..Len(text) : text[i] \notin Whitespace}
    IN  IF inner = {} THEN <<>>
        ELSE SubSeq(text, Least(inner), Greatest(inner))

Upper == <<"A", "B", "C", "D", "E", "F", "G", "H", "I", "J", "K", "L", "M",
           "N", "O", "P", "Q", "R", "S", "T", "U", "V", "W", "X", "Y", "Z">>
LowerOf == <<"a", "b", "c", "d", "e", "f", "g", "h", "i", "j", "k", "l", "m",
             "n", "o", "p", "q", "r", "s", "t", "u", "v", "w", "x", "y", "z">>

UpperCase == {Upper[n] : n \in 1..Len(Upper)}

\* c.lower() for one character
LowerChar(c) ==
    IF c \in UpperCase
    THEN LowerOf[CHOOSE n \in 1..Len(Upper) : Upper[n] = c]
    ELSE c

\* text.lower()
lower(text) == AsList([n \in 1..Len(text) |-> LowerChar(text[n])])

Digits == {"0", "1", "2", "3", "4", "5", "6", "7", "8", "9"}

\* The class [.,;:!?。，、] of simplify.
Punctuation == {".", ",", ";", ":", "!", "?", "U+3002", "U+FF0C", "U+3001"}

\* re.sub(r'\(\d+\)', '', text): every "(", one digit or more, ")" is removed.
\* Two such markers never overlap (inside one there are only digits), so the
\* leftmost-first scan of re.sub removes each of them.
RemoveMarkers(text) ==
    LET n == Len(text)
        \* Where the marker opening at s closes; 0 when none opens there.
        MarkerEnd(s) ==
            LET stops == {e \in (s + 1)..n : text[e] \notin Digits}
                e == IF stops = {} THEN 0 ELSE Least(stops)
            IN  IF text[s] = "(" /\ e > s + 1 /\ text[e] = ")" THEN e ELSE 0
        opens == {s \in 1..n : text[s] = "(" /\ MarkerEnd(s) > 0}
        kept == {i \in 1..n : \A s \in opens : i < s \/ i > MarkerEnd(s)}
    IN  IF opens = {} THEN text
        ELSE AsList([k \in 1..Cardinality(kept) |-> text[Nth(kept, k)]])

\* normalize_text: hyphens become spaces, whitespace runs one space.
normalize_text(text) ==
    IF text = <<>> THEN <<>>
    ELSE JoinWith(<<" ">>, split(AsList([n \in 1..Len(text) |->
                                            IF text[n] = "-" THEN " " ELSE text[n]])))

\* simplify: the comparison key of a text.
simplify(text) ==
    IF text = <<>> THEN <<>>
    ELSE lower(Without(Without(RemoveMarkers(text), {"-", " "}), Punctuation))

\* ------------------------------------------------- harness: simplify

MaxKeyLen == 5

\* The characters the texts given to simplify are made of.
KeyAlphabet == {"(", ")", "1", " ", "-", ".", "a", "A"}

RECURSIVE TextsOver(_, _)
\* Every text of at most n characters of the set chars.
TextsOver(chars, n) ==
    IF n = 0 THEN {<<>>}
    ELSE LET shorter == TextsOver(chars, n - 1) IN
         shorter \cup {Append(t, c) : t \in {s \in shorter : Len(s) = n - 1}, c \in chars}

\* An uploader with no file in it: a value that no file has.
NoFile == <<<<"NoFile">>>>
\* The session before "nav" is in st.session_state.
NoNav == -1
\* The page of a run that stopped for want of a file.
NoView == [outcome |-> "idle"]

DefaultAnchor == <<"N", "h", "U+01B0", " ", "v", "U+1EAD", "y", " ",
                   "t", "U+00F4", "i", " ", "n", "g", "h", "e">>

\* The session untouched: what a harness leaves alone.
SessionIdle ==
    /\ f_orig = NoFile
    /\ f_rev = NoFile
    /\ anchor = DefaultAnchor
    /\ nav = NoNav
    /\ view = NoView

InitSimplify ==
    /\ SessionIdle
    /\ pc = "simplify"
    /\ arg \in TextsOver(KeyAlphabet, MaxKeyLen)
    /\ ret = <<>>

\* key = simplify(t)
SimplifyText ==
    /\ pc = "simplify"
    /\ ret' = <<simplify(arg)>>
    /\ pc' = "resimplify"
    /\ UNCHANGED <<f_orig, f_rev, anchor, nav, view, arg>>

\* simplify(key)
SimplifyKey ==
    /\ pc = "resimplify"
    /\ ret' = Append(ret, simplify(ret[1]))
    /\ pc' = "done"
    /\ UNCHANGED <<f_orig, f_rev, anchor, nav, view, arg>>

NextSimplify == SimplifyText \/ SimplifyKey

SpecSimplify == InitSimplify /\ [][NextSimplify]_vars

\* C1: the comparison key is idempotent: simplify(simplify(t)) = simplify(t)
\* for every text t, also when removing spaces, hyphens, punctuation or an
\* inner marker leaves a new "(digits)" marker behind.
C1_SimplifyIdempotent ==
    (pc = "done" /\ Len(ret) = 2) => ret[2] = ret[1]

\* --------------------------------------------- difflib.SequenceMatcher

RECURSIVE MatchLen(_, _, _, _, _, _)
\* How far a[i:ahi] and b[j:bhi] agree from their starts.
MatchLen(a, b, i, ahi, j, bhi) ==
    IF i < ahi /\ j < bhi /\ a[i + 1] = b[j + 1]
    THEN 1 + MatchLen(a, b, i + 1, ahi, j + 1, bhi)
    ELSE 0

\* A matcher that finds no common block at all.
find_no_match(a, b, alo, ahi, blo, bhi) == <<alo, blo, 0>>

\* SequenceMatcher.find_longest_match with no junk: the longest block
\* a[i:i+k] = b[j:j+k] within a[alo:ahi] and b[blo:bhi]; of the longest, the
\* one starting earliest in a; of those, the one starting earliest in b.
find_longest_match(a, b, alo, ahi, blo, bhi) ==
    LET starts == (alo..(ahi - 1)) \X (blo..(bhi - 1))
        size(s) == MatchLen(a, b, s[1], ahi, s[2], bhi)
        sizes == {size(s) : s \in starts}
        bestsize == IF sizes = {} THEN 0 ELSE CHOOSE k \in sizes : \A m \in sizes : m <= k
        longest == {s \in starts : size(s) = bestsize}
        besti == CHOOSE i \in {s[1] : s \in longest} : \A s \in longest : i <= s[1]
        bestj == CHOOSE j \in {s[2] : s \in {t \in longest : t[1] = besti}} :
                     \A s \in {t \in longest : t[1] = besti} : j <= s[2]
    IN  IF bestsize = 0 THEN <<alo, blo, 0>> ELSE <<besti, bestj, bestsize>>

RECURSIVE BlocksIn(_, _, _, _, _, _)
\* The matching blocks of a[alo:ahi] and b[blo:bhi] in increasing order: the
\* longest match, and recursively the blocks to its left and to its right.
BlocksIn(a, b, alo, ahi, blo, bhi) ==
    LET x == find_longest_match(a, b, alo, ahi, blo, bhi)
        i == x[1]
        j == x[2]
        k == x[3]
    IN  IF k = 0 THEN <<>>
        ELSE (IF alo < i /\ blo < j THEN BlocksIn(a, b, alo, i, blo, j) ELSE <<>>)
             \o <<x>>
             \o (IF i + k < ahi /\ j + k < bhi
                 THEN BlocksIn(a, b, i + k, ahi, j + k, bhi) ELSE <<>>)

RECURSIVE Collapse(_, _)
\* Adjacent blocks merged into one; cur is the block being grown.
Collapse(blocks, cur) ==
    IF blocks = <<>> THEN (IF cur[3] > 0 THEN <<cur>> ELSE <<>>)
    ELSE LET x == Head(blocks) IN
         IF cur[1] + cur[3] = x[1] /\ cur[2] + cur[3] = x[2]
         THEN Collapse(Tail(blocks), <<cur[1], cur[2], cur[3] + x[3]>>)
         ELSE (IF cur[3] > 0 THEN <<cur>> ELSE <<>>) \o Collapse(Tail(blocks), x)

\* SequenceMatcher.get_matching_blocks: the blocks, then the sentinel
\* (len(a), len(b), 0).
get_matching_blocks(a, b) ==
    Append(Collapse(BlocksIn(a, b, 0, Len(a), 0, Len(b)), <<0, 0, 0>>),
           <<Len(a), Len(b), 0>>)

RECURSIVE OpcodesFrom(_, _, _)
\* The opcodes for the blocks left, (i, j) being where the last block ended.
OpcodesFrom(blocks, i, j) ==
    IF blocks = <<>> THEN <<>>
    ELSE LET ai == Head(blocks)[1]
             bj == Head(blocks)[2]
             size == Head(blocks)[3]
             tag == IF i < ai /\ j < bj THEN "replace"
                    ELSE IF i < ai THEN "delete"
                    ELSE IF j < bj THEN "insert"
                    ELSE ""
         IN  (IF tag # "" THEN <<<<tag, i, ai, j, bj>>>> ELSE <<>>)
             \o (IF size > 0 THEN <<<<"equal", ai, ai + size, bj, bj + size>>>> ELSE <<>>)
             \o OpcodesFrom(Tail(blocks), ai + size, bj + size)

\* SequenceMatcher(None, a, b, autojunk=False).get_opcodes()
get_opcodes(a, b) == OpcodesFrom(get_matching_blocks(a, b), 0, 0)

\* [simplify(t) for t in texts]
Keys(texts) == AsList([n \in 1..Len(texts) |-> simplify(texts[n])])

\* --------------------------------------------- highlight_real_changes

\* One element of display_a or display_b: a block of words and how it is
\* shown ("plain", or inside a "removed" or an "added" span).
Shown(style, block) == [style |-> style, text |-> block]

RECURSIVE HighlightFrom(_, _, _)
\* display_a and display_b for the opcodes left.
HighlightFrom(ops, words_a, words_b) ==
    IF ops = <<>> THEN <<<<>>, <<>>>>
    ELSE LET op == Head(ops)
             block_a == JoinWith(<<" ">>, Slice(words_a, op[2], op[3]))
             block_b == JoinWith(<<" ">>, Slice(words_b, op[4], op[5]))
             rest == HighlightFrom(Tail(ops), words_a, words_b)
         IN  IF op[1] = "equal" \/ simplify(block_a) = simplify(block_b)
             THEN << <<Shown("plain", block_a)>> \o rest[1],
                     <<Shown("plain", block_b)>> \o rest[2] >>
             ELSE << (IF block_a # <<>> THEN <<Shown("removed", block_a)>> ELSE <<>>)
                        \o rest[1],
                     (IF block_b # <<>> THEN <<Shown("added", block_b)>> ELSE <<>>)
                        \o rest[2] >>

\* highlight_real_changes(text_a, text_b): the two displays, each the list of
\* blocks that the code joins with spaces.
highlight_real_changes(text_a, text_b) ==
    LET words_a == split(text_a)
        words_b == split(text_b)
    IN  HighlightFrom(get_opcodes(Keys(words_a), Keys(words_b)), words_a, words_b)

\* How many blocks of a display sit inside a changed span.
Annotations(display) ==
    Cardinality({n \in 1..Len(display) : display[n].style # "plain"})

\* ------------------------------------- harness: highlight_real_changes

MaxTextLen == 4

\* The characters of the texts given to highlight_real_changes.
WordAlphabet == {"a", "b", " ", "-"}

InitHighlight ==
    /\ SessionIdle
    /\ pc = "highlight"
    /\ arg \in TextsOver(WordAlphabet, MaxTextLen) \X TextsOver(WordAlphabet, MaxTextLen)
    /\ ret = <<>>

\* high_a, high_b = highlight_real_changes(text_a, text_b)
Highlight ==
    /\ pc = "highlight"
    /\ ret' = highlight_real_changes(arg[1], arg[2])
    /\ pc' = "done"
    /\ UNCHANGED <<f_orig, f_rev, anchor, nav, view, arg>>

NextHighlight == Highlight

SpecHighlight == InitHighlight /\ [][NextHighlight]_vars

\* C2: two texts with equal comparison keys are displayed with no changed
\* span on either side, however the words are split on each side.
C2_KeyEqualNoAnnotation ==
    (pc = "done" /\ Len(arg) = 2 /\ simplify(arg[1]) = simplify(arg[2]))
        => (Annotations(ret[1]) = 0 /\ Annotations(ret[2]) = 0)

\* ------------------------------------------------- flatten_poem_lines

\* A paragraph shorter than this is a poem line.
PoemThreshold == 50

\* A run of poem lines is cut after this many.
PoemRunBound == 20

\* The default of window_size.
DefaultWindow == 4

RECURSIVE RunEnd(_, _, _)
\* Where the look-ahead started at i stops: the first j that is past the end,
\* not short, or PoemRunBound from i.
RunEnd(paragraphs, i, j) ==
    IF j < Len(paragraphs) /\ Len(paragraphs[j + 1]) < PoemThreshold
       /\ j < i + PoemRunBound
    THEN RunEnd(paragraphs, i, j + 1)
    ELSE j

RECURSIVE FlattenFrom(_, _, _)
\* What the outer loop appends to result from index i on.
FlattenFrom(paragraphs, window_size, i) ==
    IF ~(i < Len(paragraphs)) THEN <<>>
    ELSE LET para == paragraphs[i + 1] IN
         IF Len(para) < PoemThreshold
         THEN LET j == RunEnd(paragraphs, i, i + 1)
                  poem_lines == Slice(paragraphs, i, j)
              IN  IF Len(poem_lines) >= window_size
                  THEN <<JoinWith(<<" ">>, poem_lines)>>
                       \o FlattenFrom(paragraphs, window_size, j)
                  ELSE <<para>> \o FlattenFrom(paragraphs, window_size, i + 1)
         ELSE <<para>> \o FlattenFrom(paragraphs, window_size, i + 1)

\* flatten_poem_lines(paragraphs, window_size)
flatten_poem_lines(paragraphs, window_size) ==
    FlattenFrom(paragraphs, window_size, 0)

\* ---------------------------------------- harness: flatten_poem_lines

MaxRuns == 2
MaxWindow == 4

\* n copies of x
Repeat(x, n) == AsList([k \in 1..n |-> x])

\* The paragraphs of the lists given to flatten_poem_lines: one word,
\* two words, one character under the threshold, and at the threshold.
ParagraphKinds ==
    {<<"a">>, <<"b", " ", "c">>,
     Repeat("x", PoemThreshold - 1), Repeat("y", PoemThreshold)}

\* How many times in a row a list repeats a paragraph: around window_size and
\* around PoemRunBound.
RunLengths == {1, 3, PoemRunBound - 1, PoemRunBound + 1}

RECURSIVE ListsOfRuns(_)
\* Every list made of at most n runs of one paragraph each.
ListsOfRuns(n) ==
    IF n = 0 THEN {<<>>}
    ELSE LET shorter == ListsOfRuns(n - 1) IN
         shorter \cup {d \o Repeat(p, k) :
                           d \in shorter, p \in ParagraphKinds, k \in RunLengths}

InitFlatten ==
    /\ SessionIdle
    /\ pc = "flatten"
    /\ arg \in ListsOfRuns(MaxRuns) \X (1..MaxWindow)
    /\ ret = <<>>

\* result = flatten_poem_lines(paragraphs, window_size)
Flatten ==
    /\ pc = "flatten"
    /\ ret' = flatten_poem_lines(arg[1], arg[2])
    /\ pc' = "done"
    /\ UNCHANGED <<f_orig, f_rev, anchor, nav, view, arg>>

NextFlatten == Flatten

SpecFlatten == InitFlatten /\ [][NextFlatten]_vars

\* C5: flatten_poem_lines never drops, duplicates or reorders content: the
\* words of the emitted paragraphs, in order, are the words of the input
\* paragraphs, in order, for every window_size >= 1.
C5_FlattenKeepsWords ==
    LET RECURSIVE WordsOf(_)
        WordsOf(paragraphs) ==
            IF paragraphs = <<>> THEN <<>>
            ELSE split(Head(paragraphs)) \o WordsOf(Tail(paragraphs))
    IN  pc = "done" => WordsOf(ret) = WordsOf(arg[1])

\* C5 witness: a run of short paragraphs longer than PoemRunBound was merged up to the
\* bound and its rest, shorter than window_size, emitted one by one.
C5_Witness ==
    /\ pc = "done"
    /\ Len(arg[1]) > PoemRunBound
    /\ \A n \in 1..Len(arg[1]) : Len(arg[1][n]) < PoemThreshold
    /\ Len(ret) = 2
    /\ split(ret[1]) = Repeat(<<"a">>, PoemRunBound)
    /\ ret[2] = <<"a">>

\* ------------------------------------------------------- the script

\* How far the resync search looks past the sync point.
ResyncWindow == 200

\* The default of the "Context paragraphs" input.
ContextLines == 15

\* get_text_file, and the same filter of the .docx branch: the lines (the
\* paragraphs) of the file stripped, the blank ones left out.
get_text_file(lines) ==
    LET stripped == AsList([n \in 1..Len(lines) |-> strip(lines[n])])
    IN  SelectSeq(stripped, LAMBDA line : line # <<>>)

\* raw = flatten_poem_lines([normalize_text(p) for p in raw])
Prepare(lines) ==
    LET raw == get_text_file(lines)
    IN  flatten_poem_lines(AsList([n \in 1..Len(raw) |-> normalize_text(raw[n])]),
                           DefaultWindow)

\* key in text, for two strings
Contains(text, key) ==
    \E at \in 0..(Len(text) - Len(key)) : SubSeq(text, at + 1, at + Len(key)) = key

\* next((i for i, x in enumerate(raw) if simplify(anchor) in simplify(x)), 0)
AnchorIndex(anchor_text, raw) ==
    LET hits == {i \in 0..(Len(raw) - 1) :
                     Contains(simplify(raw[i + 1]), simplify(anchor_text))}
    IN  IF hits = {} THEN 0 ELSE Least(hits)

\* A filter that keeps every non-equal opcode, the cosmetic ones too.
IsAnyDiff(text_a, text_b, op) == TRUE

\* Whether a non-equal opcode is a real content difference.
IsRealDiff(text_a, text_b, op) ==
    simplify(Flat(Slice(text_a, op[2], op[3])))
        # simplify(Flat(Slice(text_b, op[4], op[5])))

\* A sync point taken where the equal block starts, not where it ends.
SyncAtBlockStart(op) == <<op[2], op[4]>>

\* The sync point after an equal opcode: where the block ends on each side.
SyncAfterEqual(op) == <<op[3], op[5]>>

RECURSIVE RealDiffsFrom(_, _, _, _)
\* What the loop over the opcodes appends to real_diffs, sync being
\* (last_sync_a, last_sync_b) so far.
RealDiffsFrom(ops, text_a, text_b, sync) ==
    IF ops = <<>> THEN <<>>
    ELSE LET op == Head(ops) IN
         IF op[1] = "equal"
         THEN RealDiffsFrom(Tail(ops), text_a, text_b, SyncAfterEqual(op))
         ELSE (IF IsRealDiff(text_a, text_b, op)
               THEN <<op \o sync>> ELSE <<>>)
              \o RealDiffsFrom(Tail(ops), text_a, text_b, sync)

\* GLOBAL SYNC LOGIC: real_diffs for the two anchored documents.
GlobalSync(text_a, text_b) ==
    RealDiffsFrom(get_opcodes(Keys(text_a), Keys(text_b)), text_a, text_b, <<0, 0>>)

\* resync_offset_a and resync_idx_b while nothing is found.
None == -1

\* A search that goes on to the end of the revised document.
SearchToTheEnd(last_sync_b, text_b) == Len(text_b)

\* search_end = min(last_sync_b + 200, len(text_b))
SearchEnd(last_sync_b, text_b) == Min(last_sync_b + ResyncWindow, Len(text_b))

RECURSIVE ResyncLoop(_, _, _, _, _)
\* One of the two loops over diff_paras_a, from offset_a on: found is
\* (resync_offset_a, resync_idx_b) as the loop finds it.
ResyncLoop(diff_paras_a, text_b, last_sync_b, offset_a, found) ==
    IF offset_a >= Len(diff_paras_a) THEN found
    ELSE LET simp_a == simplify(diff_paras_a[offset_a + 1])
             search_start == last_sync_b
             search_end == SearchEnd(last_sync_b, text_b)
             hits == {idx_b \in search_start..(search_end - 1) :
                          simplify(text_b[idx_b + 1]) = simp_a}
             now == IF hits = {} THEN found ELSE <<offset_a, Least(hits)>>
         IN  IF now[2] # None THEN now
             ELSE ResyncLoop(diff_paras_a, text_b, last_sync_b, offset_a + 1, now)

\* The search of the deletion branch: the loop, and the same loop once more.
Resync(diff_paras_a, text_b, last_sync_b) ==
    ResyncLoop(diff_paras_a, text_b, last_sync_b, 0,
               ResyncLoop(diff_paras_a, text_b, last_sync_b, 0, <<None, None>>))

\* The placeholders shown for a side that has nothing.
DeletedNote == <<"[Deleted Section]">>
AddedNote == <<"[Added Section]">>

\* "\n\n".join(paras)
Paragraphs(paras) == JoinWith(<<"\n", "\n">>, paras)

\* The paragraphs shown one by one in a given style.
Each(style, paras) == AsList([n \in 1..Len(paras) |-> Shown(style, paras[n])])

\* The context paragraphs appended after the unit on one side.
Context(text, context_start) ==
    Each("context", Slice(text, context_start, Min(context_start + ContextLines, Len(text))))

\* What is displayed for a unit: how it was classified, the paragraphs of each
\* class, the two panels before the context, and where the context starts.
Display(branch, truly_deleted, truly_inserted, common_in_a, common_in_b, high_a, high_b, context_start_a, context_start_b) ==
    [branch |-> branch,
     truly_deleted |-> truly_deleted,
     truly_inserted |-> truly_inserted,
     common_in_a |-> common_in_a,
     common_in_b |-> common_in_b,
     high_a |-> high_a,
     high_b |-> high_b,
     context_start_a |-> context_start_a,
     context_start_b |-> context_start_b]

\* The deletion branch when the search found a resync point: the unit split
\* into what is truly deleted and what is common.
ShowSplit(truly_deleted, common_in_a, common_in_b, i2, resync_idx_b) ==
    Display("resync", truly_deleted, <<>>, common_in_a, common_in_b,
            (IF truly_deleted # <<>>
             THEN <<Shown("removed", Paragraphs(truly_deleted))>> ELSE <<>>)
                \o Each("plain", common_in_a),
            (IF truly_deleted # <<>>
             THEN <<Shown("note", DeletedNote)>> ELSE <<>>)
                \o Each("plain", common_in_b),
            i2, resync_idx_b + Len(common_in_a))

\* The deletion branch: the original side has paragraphs, the revised none.
ShowDeletion(diff_paras_a, text_b, i2, j2, found) ==
    IF found[2] # None
    THEN ShowSplit(Slice(diff_paras_a, 0, found[1]),
                   Slice(diff_paras_a, found[1], Len(diff_paras_a)),
                   Slice(text_b, found[2], found[2] + Len(diff_paras_a) - found[1]),
                   i2, found[2])
    ELSE Display("deletion", diff_paras_a, <<>>, <<>>, <<>>,
                 highlight_real_changes(Paragraphs(diff_paras_a), <<>>)[1],
                 <<Shown("note", DeletedNote)>>,
                 i2, j2)

\* The insertion branch: the revised side has paragraphs, the original none.
ShowInsertion(diff_paras_b, i2, j2) ==
    Display("insertion", <<>>, diff_paras_b, <<>>, <<>>,
            <<Shown("note", AddedNote)>>,
            highlight_real_changes(<<>>, Paragraphs(diff_paras_b))[2],
            i2, j2)

\* The last branch: word-level comparison of the two sides.
ShowWords(high, i2, j2) ==
    Display("words", <<>>, <<>>, <<>>, <<>>, high[1], high[2], i2, j2)

\* The three branches of "Show Results".
ShowBranch(diff_paras_a, diff_paras_b, text_b, i2, j2, last_sync_b) ==
    IF Len(diff_paras_a) > 0 /\ Len(diff_paras_b) = 0
    THEN ShowDeletion(diff_paras_a, text_b, i2, j2,
                      Resync(diff_paras_a, text_b, last_sync_b))
    ELSE IF Len(diff_paras_a) = 0 /\ Len(diff_paras_b) > 0
    THEN ShowInsertion(diff_paras_b, i2, j2)
    ELSE ShowWords(highlight_real_changes(Paragraphs(diff_paras_a),
                                          Paragraphs(diff_paras_b)), i2, j2)

\* "Add context paragraphs": the following paragraphs appended to each panel.
WithContext(shown, text_a, text_b) ==
    [shown EXCEPT !.high_a = @ \o Context(text_a, shown.context_start_a),
                  !.high_b = @ \o Context(text_b, shown.context_start_b)]

\* "Show Results": what is displayed for the difference unit under focus,
\* unit being (tag, i1, i2, j1, j2, last_sync_a, last_sync_b).
ShowUnit(text_a, text_b, unit) ==
    WithContext(ShowBranch(Slice(text_a, unit[2], unit[3]),
                           Slice(text_b, unit[4], unit[5]),
                           text_b, unit[3], unit[5], unit[7]),
                text_a, text_b)

\* ------------------------------------- the deletion branch on its own

MaxUnit == 3
MaxSync == 2

\* The paragraphs of a unit: "b" and "B" have the same key and differ as text.
UnitPool == {<<"a">>, <<"b">>, <<"B">>}

RECURSIVE UnitsOver(_)
\* Every unit of 1 to n paragraphs of UnitPool.
UnitsOver(n) ==
    IF n = 0 THEN {}
    ELSE LET shorter == UnitsOver(n - 1) IN
         {<<para>> : para \in UnitPool}
             \cup shorter
             \cup {Append(unit, para) : unit \in shorter, para \in UnitPool}

\* A revised document where "b", "B" come after n other paragraphs.
FarAway(n) == Repeat(<<"x">>, n) \o <<<<"b">>, <<"B">>>>

\* The revised documents: what the unit may match is at the start, or just
\* inside or just outside of what the search reaches.
RevisedPool == {FarAway(n) : n \in {0, 1, ResyncWindow, ResyncWindow + 1}}

\* A unit with paragraphs on the original side only, i1 = 0, in front of a
\* revised document, the sync point of the revised side being j1 = j2.
InitResync ==
    /\ SessionIdle
    /\ pc = "show"
    /\ arg \in UnitsOver(MaxUnit) \X RevisedPool \X (0..MaxSync)
    /\ ret = <<>>

\* "Show Results" up to the context, for the unit of arg.
ShowDeletionUnit ==
    /\ pc = "show"
    /\ pc' = "done"
    /\ ret' = ShowBranch(arg[1], <<>>, arg[2], Len(arg[1]), arg[3], arg[3])
    /\ UNCHANGED <<f_orig, f_rev, anchor, nav, view, arg>>

NextResync == ShowDeletionUnit

SpecResync == InitResync /\ [][NextResync]_vars

\* C7: for a unit with original paragraphs only, W being the revised indices
\* from b_sync up to min(b_sync + 200, len(revised)): with k the smallest offset
\* of the unit whose key is the key of some revised paragraph in W, and m the
\* smallest index in W with that key, the paragraphs before k are truly deleted,
\* those from k on are common, and their revised counterparts are
\* revised[m : m + (unit length - k)]; with no such offset the whole unit is a
\* true deletion.
C7_ResyncSplit ==
    pc = "done" =>
        LET unit == arg[1]
            revised == arg[2]
            b_sync == arg[3]
            W == {m \in b_sync..(Len(revised) - 1) : m < b_sync + 200}
            Matches(k) == {m \in W : simplify(revised[m + 1]) = simplify(unit[k + 1])}
            Offsets == {k \in 0..(Len(unit) - 1) : Matches(k) # {}}
        IN  IF Offsets = {}
            THEN /\ ret.branch = "deletion"
                 /\ ret.truly_deleted = unit
                 /\ ret.common_in_a = <<>>
                 /\ ret.common_in_b = <<>>
            ELSE LET k == Least(Offsets)
                     m == Least(Matches(k))
                 IN  /\ ret.branch = "resync"
                     /\ ret.truly_deleted = SubSeq(unit, 1, k)
                     /\ ret.common_in_a = SubSeq(unit, k + 1, Len(unit))
                     /\ ret.common_in_b =
                            SubSeq(revised, m + 1, Min(m + Len(unit) - k, Len(revised)))

\* C7 witness: the unit [P1, P2, P3] of which P2 and P3 only occur in the
\* revised document, at the very end of what the search reaches: P1 is
\* deleted, P2 and P3 are common with the paragraphs found there.
C7_Witness ==
    /\ pc = "done"
    /\ arg = <<(<<<<"a">>, <<"B">>, <<"b">>>>), FarAway(ResyncWindow), 1>>
    /\ ret.branch = "resync"
    /\ ret.truly_deleted = <<<<"a">>>>
    /\ ret.common_in_a = <<<<"B">>, <<"b">>>>
    /\ ret.common_in_b = <<<<"b">>, <<"B">>>>

\* nav once the key is set and clamped to the units there are.
Clamped(nav_in, count) == Min(IF nav_in = NoNav THEN 0 ELSE nav_in, count - 1)

\* if st.button("Previous"): nav = max(0, nav - 1)
AfterPrevious(n, button) == IF button = "Previous" THEN Max(0, n - 1) ELSE n

\* if st.button("Next"): nav = min(len(real_diffs) - 1, nav + 1)
AfterNext(n, count, button) == IF button = "Next" THEN Min(count - 1, n + 1) ELSE n

\* What the run computed of the two documents.
Documents(raw_a, raw_b, text_a, text_b, real_diffs) ==
    [raw_a |-> raw_a, raw_b |-> raw_b, text_a |-> text_a, text_b |-> text_b,
     real_diffs |-> real_diffs]

\* The page for real_diffs that is not empty, nav being the unit under focus
\* and counter the number that "Real Difference <n> of <count>" showed.
DifferencePage(docs, counter, n) ==
    [nav |-> n,
     view |-> [outcome |-> "difference",
               docs |-> docs,
               counter |-> counter,
               unit |-> docs.real_diffs[n + 1],
               shown |-> ShowUnit(docs.text_a, docs.text_b, docs.real_diffs[n + 1])]]

\* From "if not real_diffs" on: the success message, or navigation and the
\* unit under focus.
Page(docs, nav_in, button) ==
    IF docs.real_diffs = <<>>
    THEN [nav |-> nav_in, view |-> [outcome |-> "synchronized", docs |-> docs]]
    ELSE DifferencePage(
             docs,
             AfterPrevious(Clamped(nav_in, Len(docs.real_diffs)), button) + 1,
             AfterNext(AfterPrevious(Clamped(nav_in, Len(docs.real_diffs)), button),
                       Len(docs.real_diffs), button))

\* text = raw[idx:], idx being where the anchor is found
FromAnchor(anchor_text, raw) == Slice(raw, AnchorIndex(anchor_text, raw), Len(raw))

\* The run from the anchor alignment on.
Compare(raw_a, raw_b, text_a, text_b, nav_in, button) ==
    Page(Documents(raw_a, raw_b, text_a, text_b, GlobalSync(text_a, text_b)),
         nav_in, button)

\* The run once both files are there.
Anchored(raw_a, raw_b, anchor_text, nav_in, button) ==
    Compare(raw_a, raw_b, FromAnchor(anchor_text, raw_a), FromAnchor(anchor_text, raw_b),
            nav_in, button)

\* One run of the script, top to bottom: the files and the anchor as they are,
\* nav_in the session's nav, button the button pressed ("Previous", "Next" or
\* "" for none). Gives the session's nav after the run and what the run shows.
Script(orig, rev, anchor_text, nav_in, button) ==
    IF orig = NoFile \/ rev = NoFile THEN [nav |-> nav_in, view |-> NoView]
    ELSE Anchored(Prepare(orig), Prepare(rev), anchor_text, nav_in, button)

\* ------------------------------------------------------ the session

MaxLines == 2

\* The lines of the enumerated files. "a-b" and the two lines "a", "b" differ
\* as paragraphs and agree once joined and simplified.
LinePool == {<<"a">>, <<"b">>, <<"a", "-", "b">>}

RECURSIVE FilesOver(_)
\* Every file of at most n lines of LinePool.
FilesOver(n) ==
    IF n = 0 THEN {<<>>}
    ELSE LET shorter == FilesOver(n - 1) IN
         shorter \cup {Append(f, line) : f \in {g \in shorter : Len(g) = n - 1},
                                         line \in LinePool}

\* A line long enough not to be a poem line.
LongLine(c) == Repeat(c, PoemThreshold)

ChapterOne == <<"C", "h", "a", "p", "t", "e", "r", " ", "O", "n", "e">>
TheEnd == <<"T", "h", "e", " ", "e", "n", "d", ".">>
PoemLines == <<Repeat("a", 4), Repeat("b", 4), Repeat("c", 4), Repeat("d", 4)>>

\* The end-to-end scenario: a poem one line per paragraph, and in one paragraph.
ChapterOriginal == <<ChapterOne>> \o PoemLines \o <<TheEnd>>
ChapterRevised == <<ChapterOne, JoinWith(<<" ">>, PoemLines), TheEnd>>

\* A file of blank lines only: it yields no paragraph.
BlankFile == <<<<>>, <<" ">>>>

\* Three paragraphs that the other file has moved behind a long common part
\* (all of them, or the middle one only), and the other file.
MovedFront == <<<<"a">>, <<"b">>, <<"a", "-", "b">>,
                LongLine("x"), LongLine("y"), LongLine("x")>>
MovedBack == <<LongLine("x"), LongLine("y"), LongLine("x"),
               <<"b">>, <<"a", "-", "b">>>>
MovedBackCut == <<LongLine("x"), LongLine("y"), LongLine("x"), <<"b">>>>

\* A cosmetic difference (a paragraph split in two), a common part, a real one.
SplitThenChanged == <<<<"a">>, <<"b">>, LongLine("x"), LongLine("y"), <<"a">>>>
JoinedThenChanged == <<<<"a", "-", "b">>, LongLine("x"), LongLine("y"), <<" ", "b", " ">>>>

\* A paragraph that occurs on both sides of the one that changes.
Around == <<<<"a">>, <<"b">>, <<"a">>>>
AroundChanged == <<<<"a">>, <<"a", "-", "b">>, <<"a">>>>

\* The files a user uploads in the model.
Files ==
    FilesOver(MaxLines)
        \cup {ChapterOriginal, ChapterRevised, BlankFile, MovedFront, MovedBack,
              MovedBackCut, SplitThenChanged, JoinedThenChanged,
              Around, AroundChanged}

\* The anchors a user types in the model: the default, none, one that occurs.
Anchors == {DefaultAnchor, <<>>, <<"b">>}

Init ==
    /\ SessionIdle
    /\ pc = "session"
    /\ arg = <<>>
    /\ ret = <<>>

\* What a run leaves: the session keeps its nav and the page shows its view.
Apply(run) ==
    /\ nav' = run.nav
    /\ view' = run.view
    /\ UNCHANGED <<pc, arg, ret>>

\* Any interaction makes the script run again, with the session's nav.
Rerun(orig, rev, anchor_text, button) ==
    Apply(Script(orig, rev, anchor_text, nav, button))

\* f_orig = st.file_uploader("Original Document"): a file is uploaded.
UploadOriginal ==
    /\ pc = "session"
    /\ f_orig = NoFile
    /\ \E file \in Files :
          /\ f_orig' = file
          /\ Rerun(file, f_rev, anchor, "")
    /\ UNCHANGED <<f_rev, anchor>>

\* f_rev = st.file_uploader("Revised Document"): a file is uploaded.
UploadRevised ==
    /\ pc = "session"
    /\ f_rev = NoFile
    /\ \E file \in Files :
          /\ f_rev' = file
          /\ Rerun(f_orig, file, anchor, "")
    /\ UNCHANGED <<f_orig, anchor>>

\* The user removes the original file from its uploader.
RemoveOriginal ==
    /\ pc = "session"
    /\ f_orig # NoFile
    /\ f_orig' = NoFile
    /\ Rerun(NoFile, f_rev, anchor, "")
    /\ UNCHANGED <<f_rev, anchor>>

\* The user removes the revised file from its uploader.
RemoveRevised ==
    /\ pc = "session"
    /\ f_rev # NoFile
    /\ f_rev' = NoFile
    /\ Rerun(f_orig, NoFile, anchor, "")
    /\ UNCHANGED <<f_orig, anchor>>

\* anchor = st.text_input("Anchor Point", ...): the user types another anchor.
EditAnchor ==
    /\ pc = "session"
    /\ \E text \in Anchors \ {anchor} :
          /\ anchor' = text
          /\ Rerun(f_orig, f_rev, text, "")
    /\ UNCHANGED <<f_orig, f_rev>>

\* st.button("Previous"), which the page shows with a difference unit.
PressPrevious ==
    /\ pc = "session"
    /\ view.outcome = "difference"
    /\ Rerun(f_orig, f_rev, anchor, "Previous")
    /\ UNCHANGED <<f_orig, f_rev, anchor>>

\* st.button("Next"), which the page shows with a difference unit.
PressNext ==
    /\ pc = "session"
    /\ view.outcome = "difference"
    /\ Rerun(f_orig, f_rev, anchor, "Next")
    /\ UNCHANGED <<f_orig, f_rev, anchor>>

Next ==
    \/ UploadOriginal
    \/ UploadRevised
    \/ RemoveOriginal
    \/ RemoveRevised
    \/ EditAnchor
    \/ PressPrevious
    \/ PressNext

Spec == Init /\ [][Next]_vars

\* ------------------------------------------- properties of the session

\* C3 as stated: two paragraph sequences of equal length whose keys differ at
\* exactly one position give exactly one difference unit, one paragraph long
\* on each side, at that position.
C3_OneUnitWhateverRepeats ==
    (view.outcome = "synchronized" \/ view.outcome = "difference") =>
        LET text_a == view.docs.text_a
            text_b == view.docs.text_b
            real_diffs == view.docs.real_diffs
            Differ == {p \in 0..(Len(text_a) - 1) :
                           simplify(text_a[p + 1]) # simplify(text_b[p + 1])}
        IN  (Len(text_a) = Len(text_b) /\ Cardinality(Differ) = 1) =>
                /\ Len(real_diffs) = 1
                /\ \A p \in Differ :
                       /\ real_diffs[1][2] = p /\ real_diffs[1][3] = p + 1
                       /\ real_diffs[1][4] = p /\ real_diffs[1][5] = p + 1

\* C3: two paragraph sequences of equal length whose keys differ at exactly one
\* position, where neither of the two keys at that position is the key of a
\* paragraph of the other sequence, give exactly one difference unit, one
\* paragraph long on each side, at that position.
C3_OneUnitAtThePosition ==
    (view.outcome = "synchronized" \/ view.outcome = "difference") =>
        LET text_a == view.docs.text_a
            text_b == view.docs.text_b
            real_diffs == view.docs.real_diffs
            Differ == {p \in 0..(Len(text_a) - 1) :
                           simplify(text_a[p + 1]) # simplify(text_b[p + 1])}
            Apart == \A p \in Differ : \A q \in 1..Len(text_a) :
                         /\ simplify(text_a[p + 1]) # simplify(text_b[q])
                         /\ simplify(text_b[p + 1]) # simplify(text_a[q])
        IN  (Len(text_a) = Len(text_b) /\ Cardinality(Differ) = 1 /\ Apart) =>
                /\ Len(real_diffs) = 1
                /\ \A p \in Differ :
                       /\ real_diffs[1][2] = p /\ real_diffs[1][3] = p + 1
                       /\ real_diffs[1][4] = p /\ real_diffs[1][5] = p + 1

\* C3 witness: "a", "b", "a" against "a", "a-b", "a", which repeat a paragraph
\* and differ in the middle one only, and the one unit that covers it.
C3_Witness ==
    /\ view.outcome = "difference"
    /\ view.docs.text_a = <<<<"a">>, <<"b">>, <<"a">>>>
    /\ view.docs.text_b = <<<<"a">>, <<"a", " ", "b">>, <<"a">>>>
    /\ Len(view.docs.real_diffs) = 1
    /\ view.unit[2] = 1 /\ view.unit[3] = 2

\* C4 as stated: in the end-to-end scenario both flattened documents are
\* "Chapter One", the merged paragraph "aaaa bbbb cccc dddd", "The end.", and
\* there is no real difference unit.
C4_BothSidesMergeThePoem ==
    (f_orig = ChapterOriginal /\ f_rev = ChapterRevised
        /\ view.outcome # "idle" /\ view.docs.text_a = view.docs.raw_a
        /\ view.docs.text_b = view.docs.raw_b) =>
        /\ view.docs.raw_a = <<ChapterOne, JoinWith(<<" ">>, PoemLines), TheEnd>>
        /\ view.docs.raw_b = <<ChapterOne, JoinWith(<<" ">>, PoemLines), TheEnd>>
        /\ view.docs.real_diffs = <<>>

\* C4: in the end-to-end scenario, compared from the first paragraph on, the
\* original flattens to the single paragraph "Chapter One aaaa bbbb cccc dddd
\* The end." (the title and the closing line are short and belong to the run),
\* the revised document keeps its three paragraphs, and there is no real
\* difference unit: the documents are reported synchronized.
C4_PoemScenario ==
    (f_orig = ChapterOriginal /\ f_rev = ChapterRevised
        /\ view.outcome # "idle" /\ view.docs.text_a = view.docs.raw_a
        /\ view.docs.text_b = view.docs.raw_b) =>
        /\ view.docs.raw_a = <<JoinWith(<<" ">>, ChapterOriginal)>>
        /\ view.docs.raw_b = ChapterRevised
        /\ view.docs.real_diffs = <<>>
        /\ view.outcome = "synchronized"

\* C4 witness: the scenario's two files uploaded, the default anchor, and the
\* run that compared them.
C4_Witness ==
    /\ f_orig = ChapterOriginal
    /\ f_rev = ChapterRevised
    /\ anchor = DefaultAnchor
    /\ view.outcome = "synchronized"
    /\ Len(view.docs.text_a) = 1
    /\ Len(view.docs.text_b) = 3

\* C6: for a unit with revised paragraphs only, the original document is
\* searched from the original side's sync point, up to 200 paragraphs, for the
\* key of each revised paragraph of the unit in order; the paragraphs before
\* the first one found are truly inserted, it and the following are common.
C6_InsertionResync ==
    view.outcome = "difference" =>
        LET text_a == view.docs.text_a
            unit == SubSeq(view.docs.text_b, view.unit[4] + 1, view.unit[5])
            a_sync == view.unit[6]
            W == {m \in a_sync..(Len(text_a) - 1) : m < a_sync + 200}
            Offsets == {k \in 0..(Len(unit) - 1) :
                            \E m \in W : simplify(text_a[m + 1]) = simplify(unit[k + 1])}
        IN  (view.unit[2] = view.unit[3] /\ unit # <<>> /\ Offsets # {}) =>
                /\ view.shown.truly_inserted = SubSeq(unit, 1, Least(Offsets))
                /\ view.shown.common_in_b = SubSeq(unit, Least(Offsets) + 1, Len(unit))

\* C8: when one or both documents yield no paragraph, the run reports neither
\* "fully synchronized" nor a difference unit.
C8_EmptyInput ==
    (view.outcome = "synchronized" \/ view.outcome = "difference") =>
        (view.docs.raw_a # <<>> /\ view.docs.raw_b # <<>>)

\* C9: whenever the anchor input changes, the run that follows focuses
\* difference unit 0.
C9_NavResetOnAnchorChange ==
    [][(anchor' # anchor /\ view'.outcome = "difference") => nav' = 0]_vars

====
